---- MODULE Spec2Model ----
(***************************************************************************)
(* A model of pyWGCNA/main.py: the missing-data filters (goodGenesFun,     *)
(* goodSamplesFun, goodSamplesGenes), the block planner (calBlockSize),    *)
(* the block loop and the power selection of pickSoftThreshold, and the    *)
(* type remap of adjacency.                                                *)
(*                                                                         *)
(* Only the calls without weights are modelled: with weights the filters   *)
(* evaluate `DataFrame and DataFrame` (line 87) or index a numpy matrix    *)
(* with .loc, and never get as far as a mask.                              *)
(***************************************************************************)
EXTENDS Integers, Sequences, FiniteSets, TLC

VARIABLES
  datExpr,      \* expression matrix: datExpr[g][s], genes are rows
  minFraction,  \* <<num, den>>, the fraction num/den
  minNSamples,
  minNGenes,
  goodGenes,    \* gene mask, None before the first gene pass
  goodSamples,  \* sample mask, None before the first sample pass
  nBadGenes,
  nBadSamples,
  changed,
  iter,
  allOK,
  pc,           \* position of the running function
  err,          \* how the function ended when it did not return
  ret,          \* result of a single filter pass called on its own
  cbs,          \* a call of calBlockSize: arguments and result
  pst,          \* a call of pickSoftThreshold: its locals
  adj           \* a call of adjacency: arguments and locals

vars == <<datExpr, minFraction, minNSamples, minNGenes, goodGenes, goodSamples,
          nBadGenes, nBadSamples, changed, iter, allOK, pc, err, ret,
          cbs, pst, adj>>

(***************************************************************************)
(* Bounds of the model.                                                    *)
(***************************************************************************)
MaxGenes == 3
MaxSamples == 3
MaxCells == 6
MaxPassCells == 4
MaxMin == 2
MaxIter == 9

(***************************************************************************)
(* Data.  A cell is a number or missing (NaN).  None is Python's None for  *)
(* a mask argument; a mask is a sequence of booleans.                      *)
(***************************************************************************)
NA == -1
Cells == {NA, 0, 1}
None == << >>

Shapes == {sh \in (1..MaxGenes) \X (1..MaxSamples) : sh[1] * sh[2] <= MaxCells}
Matrices == UNION {[1..sh[1] -> [1..sh[2] -> Cells]] : sh \in Shapes}
MinFractions == {<<0, 1>>, <<1, 2>>, <<1, 1>>}
Masks(n) == [1..n -> BOOLEAN]

NRows(d) == Len(d)
NCols(d) == Len(d[1])

RECURSIVE SumSeq(_)
SumSeq(s) == IF s = << >> THEN 0 ELSE Head(s) + SumSeq(Tail(s))

\* sum(mask): the number of True entries
NumTrue(mask) == Cardinality({i \in DOMAIN mask : mask[i]})
\* np.logical_not(mask).sum()
NumFalse(mask) == Cardinality({i \in DOMAIN mask : ~mask[i]})
\* np.repeat(True, n)
AllTrue(n) == [i \in 1..n |-> TRUE]

\* pd.to_numeric(s, errors='coerce').notnull().all() fails for a column that
\* holds a missing value: line 65 exits on any missing cell.
HasNA(d) == \E g \in 1..NRows(d) : \E s \in 1..NCols(d) : d[g][s] = NA

\* number of missing / present cells of gene g over the samples in us
GeneNAs(d, g, us) == Cardinality({s \in 1..NCols(d) : us[s] /\ d[g][s] = NA})
GenePresent(d, g, us) == Cardinality({s \in 1..NCols(d) : us[s] /\ d[g][s] # NA})
\* number of missing cells of sample s over the genes in ug
SampleNAs(d, s, ug) == Cardinality({g \in 1..NRows(d) : ug[g] /\ d[g][s] = NA})

\* np.var(..., axis=1) is DataFrame.var(ddof=0, skipna=True): with n present
\* values it is (n * sum(x^2) - sum(x)^2) / n^2.  This is its numerator.
VarNum(d, g, us) ==
  LET xs == [s \in 1..NCols(d) |-> IF us[s] /\ d[g][s] # NA THEN d[g][s] ELSE 0]
      sq == [s \in 1..NCols(d) |-> xs[s] * xs[s]]
  IN GenePresent(d, g, us) * SumSeq(sq) - SumSeq(xs) * SumSeq(xs)

\* var > tol ** 2 with tol = 1e-10 * max|x| (line 71; goodSamplesGenes passes
\* tol=None).  var = VarNum / n^2, so the test is
\* VarNum * 10^20 > (max|x| * n)^2.  The cells are integers with
\* max|x| * n < 10^10, so it holds exactly when VarNum >= 1.  A gene with no
\* present value has var NaN, set to 0 by line 101: VarNum is 0 there too.
VarAboveTol(d, g, us) == VarNum(d, g, us) > 0

BelowMissingLimit_NotStrict(x, mf, n) == x * mf[2] <= (mf[2] - mf[1]) * n

\* x < (1 - minFraction) * n, cross-multiplied (den > 0)
BelowMissingLimit(x, mf, n) == x * mf[2] < (mf[2] - mf[1]) * n

(***************************************************************************)
(* goodGenesFun and goodSamplesFun, weights=None.  A call ends with a mask *)
(* (err = "ok") or with the reason it did not return one.                  *)
(***************************************************************************)
Fail(e) == [err |-> e, mask |-> None]
Ok(m) == [err |-> "ok", mask |-> m]

\* lines 72-75 and 118-122: a mask argument of None stands for all True
MaskOrAll(m, n) == IF m = None THEN AllTrue(n) ELSE m

\* lines 82-104 on masks of full length: gg = useGenes, cleared where
\* nPresent < minNSamples (line 91), then gg[gg] = ... (line 103) writes
\* only the entries that are still True.
goodGenesMask(d, us, ug, mf, mns) ==
  LET nSamples == NumTrue(us)
      gg1 == [g \in 1..NRows(d) |-> ug[g] /\ ~(GenePresent(d, g, us) < mns)]
  IN [g \in 1..NRows(d) |->
        IF gg1[g]
        THEN /\ BelowMissingLimit(GeneNAs(d, g, us), mf, nSamples)
             /\ VarAboveTol(d, g, us)
             /\ nSamples - GeneNAs(d, g, us) >= mns
        ELSE FALSE]

\* line 91: np.logical_and(useGenes, nPresent < minNSamples) pairs the mask,
\* of length shape[0], with a Series that has one entry per gene of
\* useGenes that is True.  As soon as useGenes holds a False the lengths
\* differ and the call raises instead of returning; the one exception is a
\* single gene that is excluded, where lengths 1 and 0 broadcast to an empty
\* index and lines 91-103 change nothing.
GeneShapesAgree(d, ug) == NumTrue(ug) = NRows(d) \/ NRows(d) = 1

goodGenesFun_NoMinimum(d, usArg, ugArg, mf, mns, mng) ==
  LET us == MaskOrAll(usArg, NCols(d))
      ug == MaskOrAll(ugArg, NRows(d))
  IN IF HasNA(d) THEN Fail("NonNumeric")
     ELSE IF ~GeneShapesAgree(d, ug) THEN Fail("ShapeError")
     ELSE Ok(goodGenesMask(d, us, ug, mf, mns))

goodGenesFun(d, usArg, ugArg, mf, mns, mng) ==
  LET us == MaskOrAll(usArg, NCols(d))
      ug == MaskOrAll(ugArg, NRows(d))
      gg == goodGenesMask(d, us, ug, mf, mns)
  IN IF HasNA(d) THEN Fail("NonNumeric")                 \* line 65
     ELSE IF ~GeneShapesAgree(d, ug) THEN Fail("ShapeError")  \* line 91
     ELSE IF NumTrue(gg) < mng THEN Fail("TooFewGenes")  \* line 106
     ELSE Ok(gg)

\* lines 131-142: goodSamples = useSamples, and goodSamples[useSamples] = ...
\* writes only the entries that are True.
goodSamplesMask(d, us, ug, mf, mng) ==
  LET nGenes == NumTrue(ug)
  IN [s \in 1..NCols(d) |->
        IF us[s]
        THEN /\ BelowMissingLimit(SampleNAs(d, s, ug), mf, nGenes)
             /\ nGenes - SampleNAs(d, s, ug) >= mng
        ELSE FALSE]

goodSamplesFun(d, usArg, ugArg, mf, mns, mng) ==
  LET us == MaskOrAll(usArg, NCols(d))
      ug == MaskOrAll(ugArg, NRows(d))
      gs == goodSamplesMask(d, us, ug, mf, mng)
  IN IF NumTrue(gs) < mns THEN Fail("TooFewSamples")     \* line 144
     ELSE Ok(gs)

(***************************************************************************)
(* goodSamplesGenes: the loop of lines 165-178 and the return.             *)
(***************************************************************************)
CompareCounts_NotStrict(gg, gs, nbg, nbs) ==
  [changed |-> NumFalse(gg) >= nbg \/ NumFalse(gs) >= nbs,
   nBadGenes |-> NumFalse(gg),
   nBadSamples |-> NumFalse(gs)]

CompareCounts_NewOnly(gg, gs, nbg, nbs) ==
  [changed |-> NumFalse(gg) > nbg \/ NumFalse(gs) > nbs,
   nBadGenes |-> NumFalse(gg) - nbg,
   nBadSamples |-> NumFalse(gs) - nbs]

CompareCounts_SamplesOnly(gg, gs, nbg, nbs) ==
  [changed |-> NumFalse(gs) > nbs,
   nBadGenes |-> NumFalse(gg),
   nBadSamples |-> NumFalse(gs)]

\* lines 174-177: changed, then the new counts of excluded genes and samples
CompareCounts(gg, gs, nbg, nbs) ==
  [changed |-> NumFalse(gg) > nbg \/ NumFalse(gs) > nbs,
   nBadGenes |-> NumFalse(gg),
   nBadSamples |-> NumFalse(gs)]

Idle == [err |-> "idle", mask |-> None]
\* the state of a function that is not being called
NotCalled == [pc |-> "idle"]

InitInputs ==
  /\ datExpr \in Matrices
  /\ minFraction \in MinFractions
  /\ minNSamples \in 0..MaxMin
  /\ minNGenes \in 0..MaxMin

\* lines 157-162
InitGSG ==
  /\ InitInputs
  /\ goodGenes = None
  /\ goodSamples = None
  /\ nBadGenes = 0
  /\ nBadSamples = 0
  /\ changed = TRUE
  /\ iter = 1
  /\ allOK = FALSE
  /\ pc = "genes"
  /\ err = "none"
  /\ ret = Idle
  /\ cbs = NotCalled
  /\ pst = NotCalled
  /\ adj = NotCalled

inputs == <<datExpr, minFraction, minNSamples, minNGenes, cbs, pst, adj>>

\* line 168, entered while changed
GSG_GoodGenes ==
  /\ pc = "genes"
  /\ iter <= MaxIter
  /\ LET r == goodGenesFun(datExpr, goodSamples, goodGenes, minFraction,
                           minNSamples, minNGenes)
     IN IF r.err = "ok"
        THEN /\ goodGenes' = r.mask
             /\ pc' = "samples"
             /\ err' = err
        ELSE /\ pc' = "exit"
             /\ err' = r.err
             /\ goodGenes' = goodGenes
  /\ UNCHANGED <<inputs, goodSamples, nBadGenes, nBadSamples, changed, iter,
                 allOK, ret>>

\* line 171
GSG_GoodSamples ==
  /\ pc = "samples"
  /\ LET r == goodSamplesFun(datExpr, goodSamples, goodGenes, minFraction,
                             minNSamples, minNGenes)
     IN IF r.err = "ok"
        THEN /\ goodSamples' = r.mask
             /\ pc' = "compare"
             /\ err' = err
        ELSE /\ pc' = "exit"
             /\ err' = r.err
             /\ goodSamples' = goodSamples
  /\ UNCHANGED <<inputs, goodGenes, nBadGenes, nBadSamples, changed, iter,
                 allOK, ret>>

\* lines 174-178 and the loop test of line 165
GSG_Compare ==
  /\ pc = "compare"
  /\ LET c == CompareCounts(goodGenes, goodSamples, nBadGenes, nBadSamples)
     IN /\ changed' = c.changed
        /\ nBadGenes' = c.nBadGenes
        /\ nBadSamples' = c.nBadSamples
        /\ pc' = IF c.changed THEN "genes" ELSE "return"
  /\ iter' = iter + 1
  /\ UNCHANGED <<inputs, goodGenes, goodSamples, allOK, err, ret>>

\* lines 180-182
GSG_Return ==
  /\ pc = "return"
  /\ allOK' = (nBadGenes + nBadSamples = 0)
  /\ pc' = "done"
  /\ UNCHANGED <<inputs, goodGenes, goodSamples, nBadGenes, nBadSamples,
                 changed, iter, err, ret>>

NextGSG == GSG_GoodGenes \/ GSG_GoodSamples \/ GSG_Compare \/ GSG_Return

Spec == InitGSG /\ [][NextGSG]_vars

(***************************************************************************)
(* Claims about goodSamplesGenes, checked under Spec.                      *)
(***************************************************************************)
G == NRows(datExpr)
S == NCols(datExpr)
Ended == pc \in {"done", "exit"}
\* iterations of the loop body begun so far; iter is one ahead once an
\* iteration is complete
IterationsBegun == IF pc \in {"return", "done"} THEN iter - 1 ELSE iter

\* C1: the loop never begins more than G + S iterations, and until the
\* function has returned or aborted there is always a next step to take.
C1_BoundedIterations ==
  /\ IterationsBegun <= G + S
  /\ Ended \/ ENABLED NextGSG

\* a run that returns after using all of its G + S iterations
C1_Witness == pc = "done" /\ iter - 1 = G + S

\* C2: the counts of excluded genes and of excluded samples, as recorded at
\* the end of each iteration and as held by the masks, never decrease.
C2_CountsNonDecreasing ==
  [][/\ nBadGenes' >= nBadGenes
     /\ nBadSamples' >= nBadSamples
     /\ NumFalse(goodGenes') >= NumFalse(goodGenes)
     /\ NumFalse(goodSamples') >= NumFalse(goodSamples)]_vars

\* two iterations have completed, the first of them with exclusions
C2_Witness == pc = "done" /\ iter = 3 /\ nBadGenes > 0 /\ nBadSamples > 0

\* every gene and every sample is strictly inside every threshold
AllPass ==
  /\ \A g \in 1..G :
        /\ GenePresent(datExpr, g, AllTrue(S)) >= minNSamples
        /\ BelowMissingLimit(GeneNAs(datExpr, g, AllTrue(S)), minFraction, S)
        /\ VarAboveTol(datExpr, g, AllTrue(S))
  /\ \A s \in 1..S :
        /\ G - SampleNAs(datExpr, s, AllTrue(G)) >= minNGenes
        /\ BelowMissingLimit(SampleNAs(datExpr, s, AllTrue(G)), minFraction, G)

\* C3: on an input where everything passes, the function returns
\* allOK = true and all-true masks after exactly one iteration.
C3_AllPassReturnsAllOK ==
  (AllPass /\ Ended) =>
     /\ pc = "done"
     /\ allOK
     /\ goodGenes = AllTrue(G)
     /\ goodSamples = AllTrue(S)
     /\ iter - 1 = 1

\* gene g0 is missing in every sample; every other gene, and every sample
\* counted with g0 missing, is strictly inside every threshold
OnlyGeneMissing(g0) ==
  /\ \A s \in 1..S : datExpr[g0][s] = NA
  /\ \A g \in (1..G) \ {g0} :
        /\ \A s \in 1..S : datExpr[g][s] # NA
        /\ S >= minNSamples
        /\ BelowMissingLimit(0, minFraction, S)
        /\ VarAboveTol(datExpr, g, AllTrue(S))
  /\ G - 1 >= minNGenes
  /\ BelowMissingLimit(1, minFraction, G)
  /\ S >= minNSamples

\* C4: with exactly one all-missing gene the function returns a gene mask
\* that is false only there, an all-true sample mask, after one iteration.
C4_OneMissingGeneOneIteration ==
  \A g0 \in 1..G :
     (OnlyGeneMissing(g0) /\ Ended) =>
        /\ pc = "done"
        /\ goodGenes = [g \in 1..G |-> g # g0]
        /\ goodSamples = AllTrue(S)
        /\ iter - 1 = 1

\* C5: a mask that a pass has handed back keeps at least minNGenes genes
\* (minNSamples samples), and a too-few error ends the function without
\* a return.
C5_MinimumKept ==
  /\ (pc # "exit" /\ goodGenes # None) => NumTrue(goodGenes) >= minNGenes
  /\ (pc # "exit" /\ goodSamples # None) => NumTrue(goodSamples) >= minNSamples
  /\ err \in {"TooFewGenes", "TooFewSamples"} => pc = "exit"

\* a sample pass left fewer than minNSamples samples and the function aborted
C5_Witness ==
  /\ pc = "exit"
  /\ err = "TooFewSamples"
  /\ goodGenes # None
  /\ NumTrue(goodSamplesMask(datExpr, AllTrue(S), goodGenes, minFraction,
                             minNGenes)) < minNSamples

\* C11: when goodSamplesGenes has returned, its masks are a fixed point of
\* the two filters: goodGenesFun applied to them hands back the same gene
\* mask and goodSamplesFun the same sample mask, so every kept gene passes
\* the gene thresholds over the kept samples and every kept sample passes
\* the sample thresholds over the kept genes.
C11_ReturnedMasksFixedPoint ==
  pc = "done" =>
     /\ goodGenesFun(datExpr, goodSamples, goodGenes, minFraction,
                     minNSamples, minNGenes) = Ok(goodGenes)
     /\ goodSamplesFun(datExpr, goodSamples, goodGenes, minFraction,
                       minNSamples, minNGenes) = Ok(goodSamples)
     /\ \A g \in 1..G : goodGenes[g] =>
           /\ GenePresent(datExpr, g, goodSamples) >= minNSamples
           /\ BelowMissingLimit(GeneNAs(datExpr, g, goodSamples), minFraction,
                                NumTrue(goodSamples))
           /\ VarAboveTol(datExpr, g, goodSamples)
     /\ \A s \in 1..S : goodSamples[s] =>
           /\ NumTrue(goodGenes) - SampleNAs(datExpr, s, goodGenes) >= minNGenes
           /\ BelowMissingLimit(SampleNAs(datExpr, s, goodGenes), minFraction,
                                NumTrue(goodGenes))

\* the function has returned masks that keep several genes and samples
C11_Witness ==
  /\ pc = "done"
  /\ NumTrue(goodGenes) >= 2
  /\ NumTrue(goodSamples) >= 2

(***************************************************************************)
(* A single filter pass called on its own: goodGenesFun or goodSamplesFun  *)
(* on any matrix, any pair of masks and any thresholds.  goodGenes and     *)
(* goodSamples hold the masks as passed in (useGenes, useSamples); the     *)
(* mask handed back is the same array, changed in place, held in ret.      *)
(***************************************************************************)
PassMatrices ==
  UNION {[1..sh[1] -> [1..sh[2] -> Cells]] :
           sh \in {x \in Shapes : x[1] * x[2] <= MaxPassCells}}

InitPass ==
  /\ datExpr \in PassMatrices
  /\ minFraction \in MinFractions
  /\ minNSamples \in 0..MaxMin
  /\ minNGenes \in 0..MaxMin
  /\ goodGenes \in Masks(NRows(datExpr))
  /\ goodSamples \in Masks(NCols(datExpr))
  /\ nBadGenes = 0
  /\ nBadSamples = 0
  /\ changed = TRUE
  /\ iter = 1
  /\ allOK = FALSE
  /\ pc = "call"
  /\ err = "none"
  /\ ret = Idle
  /\ cbs = NotCalled
  /\ pst = NotCalled
  /\ adj = NotCalled

Pass_GoodGenes ==
  /\ pc = "call"
  /\ ret' = goodGenesFun(datExpr, goodSamples, goodGenes, minFraction,
                         minNSamples, minNGenes)
  /\ pc' = "retGenes"
  /\ UNCHANGED <<inputs, goodGenes, goodSamples, nBadGenes, nBadSamples,
                 changed, iter, allOK, err>>

Pass_GoodSamples ==
  /\ pc = "call"
  /\ ret' = goodSamplesFun(datExpr, goodSamples, goodGenes, minFraction,
                           minNSamples, minNGenes)
  /\ pc' = "retSamples"
  /\ UNCHANGED <<inputs, goodGenes, goodSamples, nBadGenes, nBadSamples,
                 changed, iter, allOK, err>>

NextPass == Pass_GoodGenes \/ Pass_GoodSamples

SpecPass == InitPass /\ [][NextPass]_vars

(***************************************************************************)
(* Claims about a single pass, checked under SpecPass.                     *)
(***************************************************************************)
GenesReturned == pc = "retGenes" /\ ret.err = "ok"
SamplesReturned == pc = "retSamples" /\ ret.err = "ok"
nSamplesUsed == NumTrue(goodSamples)
nGenesUsed == NumTrue(goodGenes)

\* the three causes of C10 for gene g, (b) as "exceeds" or as "reaches"
GeneTooFewPresent(g) == GenePresent(datExpr, g, goodSamples) < minNSamples
GeneMissingExceeds(g) ==
  GeneNAs(datExpr, g, goodSamples) * minFraction[2]
     > (minFraction[2] - minFraction[1]) * nSamplesUsed
GeneMissingReaches(g) ==
  GeneNAs(datExpr, g, goodSamples) * minFraction[2]
     >= (minFraction[2] - minFraction[1]) * nSamplesUsed
GeneNoVariance(g) == VarNum(datExpr, g, goodSamples) = 0

SampleTooFewPresent(s) ==
  nGenesUsed - SampleNAs(datExpr, s, goodGenes) < minNGenes
SampleMissingExceeds(s) ==
  SampleNAs(datExpr, s, goodGenes) * minFraction[2]
     > (minFraction[2] - minFraction[1]) * nGenesUsed
SampleMissingReaches(s) ==
  SampleNAs(datExpr, s, goodGenes) * minFraction[2]
     >= (minFraction[2] - minFraction[1]) * nGenesUsed

FilterIdle ==
  /\ datExpr = <<<<0>>>>
  /\ minFraction = <<1, 2>>
  /\ minNSamples = 0
  /\ minNGenes = 0
  /\ goodGenes = None
  /\ goodSamples = None
  /\ nBadGenes = 0
  /\ nBadSamples = 0
  /\ changed = FALSE
  /\ iter = 1
  /\ allOK = FALSE
  /\ pc = "idle"
  /\ err = "none"
  /\ ret = Idle

filterVars == <<datExpr, minFraction, minNSamples, minNGenes, goodGenes,
                goodSamples, nBadGenes, nBadSamples, changed, iter, allOK, pc,
                err, ret>>

(***************************************************************************)
(* calBlockSize (lines 224-237).  An optional argument is None or <<v>>.   *)
(* maxAlloc is a float; it is kept here as the exact fraction num/den,     *)
(* which for the integers of the model has the same floor.                 *)
(***************************************************************************)
MaxMatrixSize == 6
MaxMemory == 120
MaxRlimit == 40

\* resource.getrlimit(resource.RLIMIT_AS)[1] of a process without a limit
RLIM_INFINITY == -1
\* the default of the parameter overheadFactor
overheadFactor == 3
\* maxMemoryAllocation / 8
BytesPerValue == 8

RECURSIVE SqrtFloorFrom(_, _, _)
SqrtFloorFrom(k, num, den) ==
  IF (k + 1) * (k + 1) * den <= num THEN SqrtFloorFrom(k + 1, num, den) ELSE k
\* math.floor(math.sqrt(num / den)) for num >= 0, den > 0
SqrtFloor(num, den) == SqrtFloorFrom(0, num, den)

Min(a, b) == IF a <= b THEN a ELSE b

calBlockSize(matrixSize, rectangularBlocks, maxMemoryAllocation, rlimit) ==
  LET \* lines 225-230: maxAlloc = num / den
      num == IF maxMemoryAllocation = None THEN rlimit ELSE maxMemoryAllocation[1]
      den == IF maxMemoryAllocation = None
             THEN overheadFactor ELSE BytesPerValue * overheadFactor
  IN IF rectangularBlocks
     THEN \* line 233; \div rounds down, as math.floor does
          [err |-> "none", blockSz |-> Min(matrixSize, num \div (den * matrixSize))]
     ELSE IF num < 0
     THEN \* line 235: math.sqrt of a negative number raises
          [err |-> "ValueError", blockSz |-> 0]
     ELSE [err |-> "none", blockSz |-> Min(matrixSize, SqrtFloor(num, den))]

\* a call with an explicit ceiling, or with the default None, which reads
\* the hard limit of RLIMIT_AS
BlockCalls ==
  {[pc |-> "call", matrixSize |-> n, rectangularBlocks |-> r,
    maxMemoryAllocation |-> <<b>>, rlimit |-> RLIM_INFINITY,
    err |-> "none", blockSz |-> 0] :
      n \in 1..MaxMatrixSize, r \in BOOLEAN, b \in 0..MaxMemory}
  \cup
  {[pc |-> "call", matrixSize |-> n, rectangularBlocks |-> r,
    maxMemoryAllocation |-> None, rlimit |-> l,
    err |-> "none", blockSz |-> 0] :
      n \in 1..MaxMatrixSize, r \in BOOLEAN,
      l \in {RLIM_INFINITY} \cup 0..MaxRlimit}

InitBlock ==
  /\ FilterIdle
  /\ pst = NotCalled
  /\ adj = NotCalled
  /\ cbs \in BlockCalls

CBS_Call ==
  /\ cbs.pc = "call"
  /\ LET r == calBlockSize(cbs.matrixSize, cbs.rectangularBlocks,
                           cbs.maxMemoryAllocation, cbs.rlimit)
     IN cbs' = [cbs EXCEPT !.pc = "ret", !.err = r.err, !.blockSz = r.blockSz]
  /\ UNCHANGED <<filterVars, pst, adj>>

NextBlock == CBS_Call

SpecBlock == InitBlock /\ [][NextBlock]_vars

\* C6: calBlockSize returns a block size b with 1 <= b <= matrixSize.
C6_BlockSizeInRange ==
  cbs.pc = "ret" =>
     /\ cbs.err = "none"
     /\ 1 <= cbs.blockSz
     /\ cbs.blockSz <= cbs.matrixSize

(***************************************************************************)
(* pickSoftThreshold (lines 266-401): the arguments that decide its        *)
(* control flow, the block loop, and the choice of the power.  The         *)
(* correlations and scaleFreeFitIndex are data: the fitted R^2 of each     *)
(* power is any value of RsqValues, in hundredths.                         *)
(***************************************************************************)
MaxPickGenes == 5
MaxPowers == 2
MaxPowerValue == 3

\* the default of the parameter RsquaredCut, 0.85, in hundredths
RsquaredCut == 85
RsqValues == {80, 85, 90}
\* line 276: fewer genes than this and the function exits
MinNodes == 3
\* line 286: maxMemoryAllocation=2 ** 30
PickMemory == 2^30

RECURSIVE Insert(_, _)
Insert(x, s) ==
  IF s = << >> THEN <<x>>
  ELSE IF x <= Head(s) THEN <<x>> \o s
  ELSE <<Head(s)>> \o Insert(x, Tail(s))
RECURSIVE Sort(_)
\* np.sort
Sort(s) == IF s = << >> THEN << >> ELSE Insert(Head(s), Sort(Tail(s)))

PowerVectors == UNION {[1..n -> 1..MaxPowerValue] : n \in 1..MaxPowers}

InitPick ==
  /\ FilterIdle
  /\ cbs = NotCalled
  /\ adj = NotCalled
  /\ \E n \in 1..MaxPickGenes, pv \in PowerVectors,
        b \in {None} \cup {<<x>> : x \in 0..MaxPickGenes} :
        pst = [pc |-> "call", nGenes |-> n, blockSizeArg |-> b,
               powerVector |-> pv, blockSize |-> 0, startG |-> 0, endG |-> 0,
               datk |-> << >>, Rsq |-> << >>, err |-> "none",
               powerEstimate |-> [shape |-> "unset", values |-> << >>]]

\* lines 270-322
PST_Start ==
  /\ pst.pc = "call"
  /\ IF pst.nGenes < MinNodes
     THEN pst' = [pst EXCEPT !.pc = "exit", !.err = "TooFewNodes",
                             !.powerVector = Sort(pst.powerVector)]
     ELSE pst' = [pst EXCEPT
            !.pc = "blocks",
            !.powerVector = Sort(pst.powerVector),
            !.blockSize =
               IF pst.blockSizeArg = None
               THEN calBlockSize(pst.nGenes, TRUE, <<PickMemory>>,
                                 RLIM_INFINITY).blockSz
               ELSE pst.blockSizeArg[1],
            !.datk = [i \in 1..pst.nGenes |-> 0],
            !.startG = 0]
  /\ UNCHANGED <<filterVars, cbs, adj>>

\* range(startG, endG): the gene indices of one block, endG left out
useGenes(startG, endG) == {i \in 0..(endG - 1) : i >= startG}

\* one pass of the loop of lines 324-374.  datk[i + 1] counts how often
\* the row of gene index i has been written by line 370.
PST_Block ==
  /\ pst.pc = "blocks"
  /\ pst.startG <= pst.nGenes
  /\ LET endG == Min(pst.startG + pst.blockSize - 1, pst.nGenes)
     IN pst' = [pst EXCEPT
          !.endG = endG,
          !.datk = [i \in 1..pst.nGenes |->
                      IF (i - 1) \in useGenes(pst.startG, endG)
                      THEN pst.datk[i] + 1 ELSE pst.datk[i]],
          !.startG = endG + 1]
  /\ UNCHANGED <<filterVars, cbs, adj>>

\* lines 376-394, once the loop has ended: one fitted R^2 for each power
PST_Fit ==
  /\ pst.pc = "blocks"
  /\ pst.startG > pst.nGenes
  /\ \E r \in [1..Len(pst.powerVector) -> RsqValues] :
        pst' = [pst EXCEPT !.pc = "select", !.Rsq = r]
  /\ UNCHANGED <<filterVars, cbs, adj>>

\* ind1 of line 395
Qualifying(rsq) == {i \in 1..Len(rsq) : rsq[i] > RsquaredCut}

\* lines 395-401.  With a qualifying power, line 398 indexes a range with
\* the boolean Series ind1, which raises TypeError.  With none, indcut stays
\* None and powerVector[None] is the whole vector with a new leading axis.
PST_Select ==
  /\ pst.pc = "select"
  /\ IF Qualifying(pst.Rsq) # {}
     THEN pst' = [pst EXCEPT !.pc = "exit", !.err = "TypeError"]
     ELSE pst' = [pst EXCEPT !.pc = "done",
                    !.powerEstimate = [shape |-> "1xN", values |-> pst.powerVector]]
  /\ UNCHANGED <<filterVars, cbs, adj>>

NextPick == PST_Start \/ PST_Block \/ PST_Fit \/ PST_Select

SpecPick == InitPick /\ [][NextPick]_vars

Selected == pst.pc \in {"done", "exit"} /\ pst.Rsq # << >>
SmallestQualifying ==
  pst.powerVector[CHOOSE i \in Qualifying(pst.Rsq) :
                     \A j \in Qualifying(pst.Rsq) : i <= j]

\* C7: the power estimate is the smallest power whose R^2 exceeds the cut;
\* with no such power the function ends with the explicit outcome
\* NoPowerMeetsThreshold.
C7_SmallestOrSignal ==
  Selected =>
     IF Qualifying(pst.Rsq) # {}
     THEN /\ pst.pc = "done"
          /\ pst.powerEstimate =
               [shape |-> "scalar", values |-> <<SmallestQualifying>>]
     ELSE /\ pst.pc = "exit"
          /\ pst.err = "NoPowerMeetsThreshold"

\* C9: for nGenes >= 3 and 1 <= blockSize <= nGenes, when the block loop has
\* ended every gene's row of datk has been written exactly once.
C9_BlocksPartition ==
  (/\ pst.pc \in {"select", "done"}
   /\ pst.nGenes >= MinNodes
   /\ 1 <= pst.blockSize
   /\ pst.blockSize <= pst.nGenes)
  => \A i \in 1..pst.nGenes : pst.datk[i] = 1

(***************************************************************************)
(* adjacency (lines 404-463), followed for one entry of the correlation    *)
(* matrix: cor / CorDen, which is 1 on the diagonal.  A fraction is a pair *)
(* <<num, den>>.  Lines 412-443 are taken to yield the correlation         *)
(* whenever weights and selectCols are objects they can be applied to.     *)
(***************************************************************************)
CorDen == 8
MaxAdjPower == 2

\* line 19
adjacencyTypes == <<"unsigned", "signed">>
TypeArgs == {"unsigned", "signed", "signed hybrid"}

\* list.index: the position counted from 0
Index0(list, x) == (CHOOSE i \in 1..Len(list) : list[i] = x) - 1

Abs(x) == IF x < 0 THEN -x ELSE x
RatEq(a, b) == a[1] * b[2] = b[1] * a[2]
RatLeq(a, b) == a[1] * b[2] <= b[1] * a[2]

\* lines 456-461: the remap chosen by intType
remap(intType, c) ==
  IF intType = 1 THEN <<Abs(c[1]), c[2]>>
  ELSE IF intType = 2 THEN <<c[2] + c[1], 2 * c[2]>>
  ELSE IF intType = 3 THEN <<IF c[1] < 0 THEN 0 ELSE c[1], c[2]>>
  ELSE c

InitAdj ==
  /\ FilterIdle
  /\ cbs = NotCalled
  /\ pst = NotCalled
  /\ \E ty \in TypeArgs, w \in {"None", "given"}, sc \in {"None", "given"},
        c \in (-CorDen)..CorDen, pw \in 1..MaxAdjPower :
        adj = [pc |-> "call", type |-> ty, weights |-> w, selectCols |-> sc,
               cor |-> c, power |-> pw, intType |-> 0, cor_mat |-> <<0, 1>>,
               err |-> "none"]

\* lines 406-454
ADJ_Correlate ==
  /\ adj.pc = "call"
  /\ IF \A i \in 1..Len(adjacencyTypes) : adjacencyTypes[i] # adj.type
     THEN \* line 406: list.index raises for a value that is not in the list
          adj' = [adj EXCEPT !.pc = "exit", !.err = "ValueError"]
     ELSE IF adj.weights = "None"
     THEN \* line 411: len(None)
          adj' = [adj EXCEPT !.pc = "exit", !.err = "TypeError",
                             !.intType = Index0(adjacencyTypes, adj.type)]
     ELSE IF adj.selectCols = "None"
     THEN \* line 412: None.isnull()
          adj' = [adj EXCEPT !.pc = "exit", !.err = "AttributeError",
                             !.intType = Index0(adjacencyTypes, adj.type)]
     ELSE adj' = [adj EXCEPT !.pc = "remap",
                             !.intType = Index0(adjacencyTypes, adj.type),
                             !.cor_mat = <<adj.cor, CorDen>>]
  /\ UNCHANGED <<filterVars, cbs, pst>>

\* lines 456-461
ADJ_Remap ==
  /\ adj.pc = "remap"
  /\ adj' = [adj EXCEPT !.pc = "power", !.cor_mat = remap(adj.intType, adj.cor_mat)]
  /\ UNCHANGED <<filterVars, cbs, pst>>

\* line 463: cor_mat ^ power is a bitwise xor, which floats do not have
ADJ_Power ==
  /\ adj.pc = "power"
  /\ adj' = [adj EXCEPT !.pc = "exit", !.err = "TypeError"]
  /\ UNCHANGED <<filterVars, cbs, pst>>

NextAdj == ADJ_Correlate \/ ADJ_Remap \/ ADJ_Power

SpecAdj == InitAdj /\ [][NextAdj]_vars

\* C8: before the power is applied the entry is |c| for type "unsigned" and
\* (1 + c) / 2 for type "signed", a value of [0, 1]; for type "signed" and
\* c = 1/2 that is 3/4.
C8_RemapByType ==
  adj.pc = "power" =>
     /\ adj.type = "unsigned" => RatEq(adj.cor_mat, <<Abs(adj.cor), CorDen>>)
     /\ adj.type = "signed" => RatEq(adj.cor_mat, <<CorDen + adj.cor, 2 * CorDen>>)
     /\ RatLeq(<<0, 1>>, adj.cor_mat)
     /\ RatLeq(adj.cor_mat, <<1, 1>>)
     /\ (adj.type = "signed" /\ 2 * adj.cor = CorDen) => RatEq(adj.cor_mat, <<3, 4>>)

====
